---- MODULE Spec2Model ----
(***************************************************************************)
(* Identity graph materialisation: the Graph Upsert Engine                 *)
(* (save_iam_data_to_neptune) and the Usage Annotator                      *)
(* (save_cloudtrail_data_to_neptune) of core/graph_util.py, run against a  *)
(* property graph of vertices and edges.                                   *)
(*                                                                         *)
(* The graph is the pair (V, E): V is the sequence of vertices in creation *)
(* order (a vertex's id is its index), E the sequence of edges.  Every     *)
(* Gremlin traversal the code submits is one request; a request is a read  *)
(* (the has()/inE() part) followed by a conditional write (the addV/addE/  *)
(* property part).  Spec runs one invocation at a time and executes each   *)
(* request in one step; SpecConc runs two workers and lets other requests  *)
(* fall between the read and the write of a request.                       *)
(*                                                                         *)
(* Gremlin steps follow the TinkerPop reference semantics: has(l,k,v)      *)
(* filters on label and property, fold().coalesce(unfold(), addV) adds     *)
(* only when the fold is empty, is(x) compares the traverser with the      *)
(* value x (it does not resolve step labels), tryNext() yields an optional *)
(* first result.                                                           *)
(***************************************************************************)
EXTENDS Integers, Sequences, FiniteSets, TLC

VARIABLES
    V,       \* vertices: <<[label, props]>>, id = index
    E,       \* edges: <<[label, outV, inV, props]>>
    clock,   \* the latest value read from the wall clock (datetime.now)
    call,    \* per worker: the invocation it runs (or ran last)
    calls,   \* number of invocations started
    faults,  \* number of requests the graph store has failed
    obs,     \* the annotation writes made, in order: [arn, name, start, now]
    run      \* the Lambda handler invocation: its position and its response

vars == <<V, E, clock, call, calls, faults, obs, run>>

\* ---------------------------------------------------------------- bounds

MaxCalls == 3
MaxClock == 1
MaxFaults == 1
MaxActions == 10   \* the largest action count handed to the Exposure Scorer
MaxDays == 91      \* the largest days_since_last_use handed to it
MaxEvents == 3     \* the most audit events one lookup returns

\* ------------------------------------------------------- python values

\* A str is modelled as the sequence of its characters, so that the
\* substring test ('*' in action) is computed, not looked up.
ActGet == <<"s", ":", "g">>
ActPut == <<"s", ":", "p">>
ActDel == <<"s", ":", "d">>
ActAll == <<"*">>
ActSvcAll == <<"s", ":", "*">>

PyStr(s) == [type |-> "str", val |-> s]
PyList(l) == [type |-> "list", val |-> l]
PyDict(d) == [type |-> "dict", val |-> d]
PyNone == [type |-> "NoneType"]

\* Faulty variant: the test `action == '*'` in place of `'*' in action`.
ContainsWhole(haystack, needle) == haystack = <<needle>>

\* needle in haystack, for a one-character needle
Contains(haystack, needle) ==
    \E i \in 1..Len(haystack) : haystack[i] = needle

\* d.get(key), d.get(key, default)
DictGet(d, key, default) ==
    IF key \in DOMAIN d THEN d[key] ELSE default

RECURSIVE Flatten(_)
Flatten(ss) ==
    IF ss = <<>> THEN <<>> ELSE Head(ss) \o Flatten(Tail(ss))

\* datetime.isoformat(): the text of the instant
isoformat(t) == [iso |-> t]

\* ---------------------------------------------------------------- inputs

\* policy documents: Statement: list of {Effect, Action: str | list}
DocGet ==
    PyDict([Statement |-> <<[Effect |-> "Allow", Action |-> PyStr(ActGet)]>>])
DocStar ==
    PyDict([Statement |-> <<[Effect |-> "Allow", Action |-> PyStr(ActAll)]>>])
DocMixed ==
    PyDict([Statement |-> <<[Effect |-> "Deny", Action |-> PyStr(ActDel)],
                            [Effect |-> "Allow",
                             Action |-> PyList(<<ActSvcAll, ActPut>>)]>>])
DocNoAction ==
    PyDict([Statement |-> <<[Effect |-> "Allow"]>>])
DocBoth ==
    PyDict([Statement |-> <<[Effect |-> "Allow",
                             Action |-> PyList(<<ActGet, ActPut>>)]>>])

PolGet ==
    [arn |-> "p1", name |-> "Get", type |-> "managed", document |-> DocGet]
PolStar ==
    [arn |-> "p2", name |-> "Admin", type |-> "managed", document |-> DocStar]
\* the policy of PolGet as a later collection finds it: renamed, retyped and
\* with another document
PolMixed ==
    [arn |-> "p1", name |-> "Mixed", type |-> "inline", document |-> DocMixed]
PolNoAction ==
    [arn |-> "p4", name |-> "Broken", type |-> "inline", document |-> DocNoAction]
PolBoth ==
    [arn |-> "p3", name |-> "Both", type |-> "inline", document |-> DocBoth]

RoleRecord(arn, name, policies) ==
    [arn |-> arn, name |-> name, account_id |-> "acct", policies |-> policies]

\* iam_data: the batches handed to save_iam_data_to_neptune, by name
IamInputs ==
    [Bare |-> <<RoleRecord("r1", "A", <<>>)>>,
     Shared |-> <<RoleRecord("r1", "A", <<PolGet>>),
                  RoleRecord("r2", "B", <<PolGet, PolStar>>)>>,
     Mixed |-> <<[RoleRecord("r1", "A2", <<PolMixed>>)
                     EXCEPT !.account_id = "acct2"]>>,
     Broken |-> <<RoleRecord("r2", "B", <<PolNoAction>>),
                  RoleRecord("r1", "A", <<>>)>>,
     Twice |-> <<RoleRecord("r1", "A", <<PolGet, PolBoth>>),
                 RoleRecord("r2", "B", <<PolStar>>)>>]

\* used_actions_by_role: the dict's items in insertion order, by name
UsageInputs ==
    [One |-> <<[arn |-> "r1", actions |-> <<ActGet>>]>>,
     UnknownFirst |-> <<[arn |-> "r2", actions |-> <<ActGet>>],
                        [arn |-> "r1", actions |-> <<ActGet, ActPut>>]>>,
     UnknownLast |-> <<[arn |-> "r1", actions |-> <<ActDel>>],
                       [arn |-> "r2", actions |-> <<ActGet>>]>>,
     Beyond |-> <<[arn |-> "r1", actions |-> <<ActDel, ActGet, ActPut>>],
                  [arn |-> "r2", actions |-> <<ActGet>>]>>]

\* the inputs of the sequential runs: the batches that carry policies and the
\* mappings that name two roles
SeqIamInputs == {"Shared", "Mixed", "Broken"}
SeqUsageInputs == {"UnknownFirst", "UnknownLast"}

\* the inputs of the concurrent runs: a role without policies, a batch whose
\* policy document stops the upsert, and one used action
ConcIamInputs == {"Bare", "Broken"}
ConcUsageInputs == {"One"}

\* the inputs that fill the graph before a scoring pass: a role with one
\* action permitted by two of its policies and a role with only the wildcard;
\* usage that gives each role more used actions than its policies permit
ScoringIamInputs == {"Twice"}
ScoringUsageInputs == {"Beyond"}

\* collector_handler.py: start_time = end_time - timedelta(days=LOOKBACK_DAYS)
LOOKBACK_DAYS == 90

\* ------------------------------------------- the requests of an invocation

\* The loops of save_iam_data_to_neptune unrolled into the sequence of graph
\* requests they issue, in order; ri is the role's position in the batch
\* (the value of roles_processed while it is handled).  A "raise" entry is a
\* Python exception thrown by the client-side code at that point.

\* for action in actions: if '*' not in action: upsert Action, PERMITS
ActionOps(ri, actions) ==
    Flatten([i \in 1..Len(actions) |->
        IF ~Contains(actions[i], "*")
        THEN <<[op |-> "action", ri |-> ri, name |-> actions[i]],
               [op |-> "permits", ri |-> ri]>>
        ELSE <<>>])

\* Faulty variant: the Effect of the statement is not consulted.
StatementOpsAnyEffect(ri, statement) ==
    LET actions == DictGet(statement, "Action", PyNone)
    IN  CASE actions.type = "str" -> ActionOps(ri, <<actions.val>>)
          [] actions.type = "list" -> ActionOps(ri, actions.val)
          [] OTHER -> <<[op |-> "raise", ri |-> ri]>>

\* if statement.get('Effect') == 'Allow': actions = statement.get('Action');
\* a str becomes a one-element list; iterating None raises TypeError
StatementOps(ri, statement) ==
    IF DictGet(statement, "Effect", "None") = "Allow"
    THEN LET actions == DictGet(statement, "Action", PyNone)
         IN  CASE actions.type = "str" -> ActionOps(ri, <<actions.val>>)
               [] actions.type = "list" -> ActionOps(ri, actions.val)
               [] OTHER -> <<[op |-> "raise", ri |-> ri]>>
    ELSE <<>>

\* policy upsert, HAS_POLICY, then the statements of document.get('Statement', [])
PolicyOps(ri, policy_data) ==
    <<[op |-> "policy", ri |-> ri, rec |-> policy_data],
      [op |-> "has_policy", ri |-> ri]>>
    \o (IF policy_data.document.type = "dict"
        THEN LET stmts == DictGet(policy_data.document.val, "Statement", <<>>)
             IN  Flatten([i \in 1..Len(stmts) |-> StatementOps(ri, stmts[i])])
        ELSE <<[op |-> "raise", ri |-> ri]>>)

RoleOps(ri, role_details) ==
    <<[op |-> "role", ri |-> ri, rec |-> role_details]>>
    \o Flatten([i \in 1..Len(role_details.policies) |->
                   PolicyOps(ri, role_details.policies[i])])

IamOps(iam_data) ==
    Flatten([i \in 1..Len(iam_data) |-> RoleOps(i, iam_data[i])])

\* save_cloudtrail_data_to_neptune: per role the lookup, then per action the
\* Action upsert and the USED_ACTION request
UsageOps(used_actions_by_role) ==
    Flatten([i \in 1..Len(used_actions_by_role) |->
        <<[op |-> "find_role", ri |-> i, arn |-> used_actions_by_role[i].arn]>>
        \o Flatten([j \in 1..Len(used_actions_by_role[i].actions) |->
              <<[op |-> "usage_action", ri |-> i,
                 name |-> used_actions_by_role[i].actions[j]],
                [op |-> "used_action", ri |-> i,
                 arn |-> used_actions_by_role[i].arn,
                 name |-> used_actions_by_role[i].actions[j]]>>])])

IamProgram == [b \in DOMAIN IamInputs |-> IamOps(IamInputs[b])]
UsageProgram == [u \in DOMAIN UsageInputs |-> UsageOps(UsageInputs[u])]

\* the requests of invocation c (its input is held by name)
Ops(c) == IF c.fn = "iam" THEN IamProgram[c.input] ELSE UsageProgram[c.input]

\* ------------------------------------------------------ gremlin steps

Workers == {1, 2}

\* Faulty variant: the lookup filters on the 'name' property whatever the key.
hasByName(label, key, value) ==
    {i \in 1..Len(V) :
        /\ V[i].label = label
        /\ "name" \in DOMAIN V[i].props
        /\ V[i].props["name"] = value}

\* g.V().has(label, key, value): the ids of the matching vertices
has(label, key, value) ==
    {i \in 1..Len(V) :
        /\ V[i].label = label
        /\ key \in DOMAIN V[i].props
        /\ V[i].props[key] = value}

\* P.eq: values of different types are never equal
P_eq(a, b) == a.type = b.type /\ a.val = b.val

\* Variant: where(__.outV().as_('r')), which does resolve the step
\* label, so that an existing edge is found and its properties rewritten.
OutVAs(e, value, steps) == e.outV = steps[value]

\* where(__.outV().is_('r')) on edge e: is() compares the traverser, the
\* edge's out-vertex, with the value 'r'; steps is the traversal's step
\* labels (as_('r')), which is() does not consult
OutVIs(e, value, steps) ==
    P_eq([type |-> "vertex", val |-> e.outV], [type |-> "str", val |-> value])

\* V(to).inE(label).where(__.outV().is_(value)): the ids of the matching edges
inE(label, to, value, steps) ==
    {j \in 1..Len(E) :
        /\ E[j].label = label
        /\ E[j].inV = to
        /\ OutVIs(E[j], value, steps)}

\* element.property(key, value)
property(props, key, value) ==
    [k \in DOMAIN props \cup {key} |-> IF k = key THEN value ELSE props[k]]

\* addV('role').property('arn', ..).property('name', ..).property('account_id', ..)
RoleVertex(role_details) ==
    [label |-> "role",
     props |-> [arn |-> role_details.arn, name |-> role_details.name,
                account_id |-> role_details.account_id]]

\* json.dumps(policy_data['document'])
json_dumps(document) == [json |-> document]

\* addV('policy') with arn, name, type, document
PolicyVertex(policy_data) ==
    [label |-> "policy",
     props |-> [arn |-> policy_data.arn, name |-> policy_data.name,
                type |-> policy_data.type,
                document |-> json_dumps(policy_data.document)]]

\* addV('action').property('name', action)
ActionVertex(name) == [label |-> "action", props |-> [name |-> name]]

\* addE(label).from_('r') at the vertex `to`
Edge(label, from, to) ==
    [label |-> label, outV |-> from, inV |-> to, props |-> <<>>]

\* addE('USED_ACTION').from_('r').property('lookback_start', start_time.isoformat())
UsedActionEdge(from, to, start_time) ==
    [label |-> "USED_ACTION", outV |-> from, inV |-> to,
     props |-> [lookback_start |-> isoformat(start_time)]]

\* ----------------------------------------------------------- invocations

IdleCall ==
    [fn |-> "none", input |-> "none", start_time |-> 0, status |-> "idle",
     conn |-> FALSE, closed |-> 0, faulted |-> FALSE,
     ip |-> 0, phase |-> "build", found |-> {}, now |-> 0,
     role_node |-> 0, policy_node |-> 0, action_node |-> 0,
     repeat |-> FALSE, retry |-> FALSE,
     pre |-> [nV |-> 0, nE |-> 0, clock |-> 0, counts |-> <<>>]]

\* no handler invoked yet
IdleRun ==
    [pc |-> "idle", session |-> "None", statusCode |-> 0, message |-> "",
     saves |-> <<>>]

Running(w) == call[w].status = "running"

CurOp(w) == Ops(call[w])[call[w].ip]

AtOp(w) == Running(w) /\ call[w].ip <= Len(Ops(call[w]))

\* the node and edge counts of the graph, by label
Counts ==
    [l \in {"role", "policy", "action"} |->
        Cardinality({i \in 1..Len(V) : V[i].label = l})]
    @@ [l \in {"HAS_POLICY", "PERMITS", "USED_ACTION"} |->
        Cardinality({j \in 1..Len(E) : E[j].label = l})]

\* invocation c completed normally on input `input` of function fn
Completed(c, fn, input) ==
    c.fn = fn /\ c.input = input /\ c.status = "returned" /\ c.conn

\* invocation c of function fn on input `input` was stopped by a failure of
\* the graph store, which its caller saw as an exception
Failed(c, fn, input) ==
    c.fn = fn /\ c.input = input /\ c.status = "raised" /\ c.faulted

Init ==
    /\ V = <<>>
    /\ E = <<>>
    /\ clock = 0
    /\ call = [w \in Workers |-> IdleCall]
    /\ calls = 0
    /\ faults = 0
    /\ obs = <<>>
    /\ run = IdleRun

\* datetime.now(timezone.utc): the wall clock never runs backwards, so a
\* read returns a value not below the latest one read; instants are counted
\* in reads that saw the clock move, so a read is at most one ahead
Now == {clock, IF clock < MaxClock THEN clock + 1 ELSE clock}

\* g = get_graph_traversal(); if g is None: print(...); return
Begin(w, fn, input, now, start_time, conn) ==
    /\ ~Running(w)
    /\ calls < MaxCalls
    /\ calls' = calls + 1
    /\ clock' = now
    /\ LET c == [IdleCall EXCEPT !.fn = fn, !.input = input,
                                 !.start_time = start_time, !.conn = conn,
                                 !.repeat = Completed(call[w], fn, input),
                                 !.retry = Failed(call[w], fn, input),
                                 !.pre = [nV |-> Len(V), nE |-> Len(E),
                                          clock |-> now, counts |-> Counts]]
       IN  call' = [call EXCEPT ![w] =
                       IF conn THEN [c EXCEPT !.status = "running", !.ip = 1]
                               ELSE [c EXCEPT !.status = "returned"]]
    /\ UNCHANGED <<V, E, faults, obs, run>>

\* save_iam_data_to_neptune(iam_data)
StartIam(w, inputs) ==
    \E iam_data \in inputs, conn \in BOOLEAN :
        Begin(w, "iam", iam_data, clock, 0, conn)

\* save_cloudtrail_data_to_neptune(used_actions_list, start_time), as
\* collect_cloudtrail_usage calls it: end_time = datetime.now(timezone.utc)
\* and the window starts LOOKBACK_DAYS before it
StartUsage(w, inputs) ==
    \E used \in inputs, end_time \in Now, conn \in BOOLEAN :
        Begin(w, "usage", used, end_time, end_time - LOOKBACK_DAYS, conn)

\* Faulty variant: the Usage Annotator looks the action up under another label.
FindUsedActionOtherLabel(name) == has("used_action", "name", name)

\* g.V().has('action', 'name', action) of the Usage Annotator
FindUsedAction(name) == has("action", "name", name)

\* the read part of the current request: the elements its has()/inE() finds
Found(w) ==
    LET c == call[w]
        op == CurOp(w)
    IN  CASE op.op = "role" -> has("role", "arn", op.rec.arn)
          [] op.op = "policy" -> has("policy", "arn", op.rec.arn)
          [] op.op = "has_policy" ->
                inE("HAS_POLICY", c.policy_node, "r", [r |-> c.role_node])
          [] op.op = "action" -> has("action", "name", op.name)
          [] op.op = "permits" ->
                inE("PERMITS", c.action_node, "p", [p |-> c.policy_node])
          [] op.op = "find_role" -> has("role", "arn", op.arn)
          [] op.op = "usage_action" -> FindUsedAction(op.name)
          [] op.op = "used_action" ->
                inE("USED_ACTION", c.action_node, "r", [r |-> c.role_node])

\* the request is answered: the local it binds (if any) and the next request
Advance(c, local, n) ==
    [c EXCEPT ![local] = n, !.ip = c.ip + 1, !.phase = "build", !.found = {}]

\* Faulty variant: `break` in place of `continue`.
SkipRoleBreak(ops, ip) == Len(ops) + 1

\* `continue` at an absent role: on to the next item of the mapping
SkipRole(ops, ip) ==
    IF \E k \in ip + 1..Len(ops) : ops[k].ri # ops[ip].ri
    THEN CHOOSE k \in ip + 1..Len(ops) :
            /\ ops[k].ri # ops[ip].ri
            /\ \A m \in ip + 1..k - 1 : ops[m].ri = ops[ip].ri
    ELSE Len(ops) + 1

\* Faulty variant: a vertex that is found gets the properties of the record.
UpsertVertexRefresh(w, found, vertex, local) ==
    /\ IF found = {}
       THEN /\ V' = Append(V, vertex)
            /\ call' = [call EXCEPT ![w] = Advance(@, local, Len(V) + 1)]
       ELSE /\ V' = [i \in 1..Len(V) |-> IF i \in found THEN vertex ELSE V[i]]
            /\ \E n \in found : call' = [call EXCEPT ![w] = Advance(@, local, n)]
    /\ UNCHANGED <<E, obs>>

\* fold().coalesce(unfold(), addV(..)).next(): add the vertex when none was
\* found; the local is the (first) vertex of the result
UpsertVertex(w, found, vertex, local) ==
    /\ IF found = {}
       THEN /\ V' = Append(V, vertex)
            /\ call' = [call EXCEPT ![w] = Advance(@, local, Len(V) + 1)]
       ELSE /\ V' = V
            /\ \E n \in found : call' = [call EXCEPT ![w] = Advance(@, local, n)]
    /\ UNCHANGED <<E, obs>>

\* coalesce(inE(..).where(..), addE(..).from_(..)).iterate()
UpsertEdge(w, found, edge) ==
    /\ E' = IF found = {} THEN Append(E, edge) ELSE E
    /\ call' = [call EXCEPT ![w] = Advance(@, "found", {})]
    /\ UNCHANGED <<V, obs>>

\* coalesce(inE('USED_ACTION').., addE('USED_ACTION')..property('lookback_start', ..))
\*   .property('last_seen', now).iterate()
AnnotateEdge(w, found, edge, now) ==
    /\ E' = IF found = {}
            THEN Append(E, [edge EXCEPT
                     !.props = property(@, "last_seen", isoformat(now))])
            ELSE [j \in 1..Len(E) |->
                     IF j \in found
                     THEN [E[j] EXCEPT
                              !.props = property(@, "last_seen", isoformat(now))]
                     ELSE E[j]]
    /\ obs' = Append(obs, [arn |-> CurOp(w).arn, name |-> CurOp(w).name,
                           start |-> call[w].start_time, now |-> now])
    /\ call' = [call EXCEPT ![w] = Advance(@, "found", {})]
    /\ V' = V

\* role_node = ..tryNext(); if not role_node.isPresent(): continue
LookupRole(w, found) ==
    /\ IF found = {}
       THEN call' = [call EXCEPT ![w] =
                        [@ EXCEPT !.ip = SkipRole(Ops(call[w]), call[w].ip),
                                  !.phase = "build", !.found = {}]]
       ELSE \E n \in found :
                call' = [call EXCEPT ![w] = Advance(@, "role_node", n)]
    /\ UNCHANGED <<V, E, obs>>

\* the write part of the current request, given what its read part found and
\* the time the client read when it built the request
Effect(w, found, now) ==
    LET c == call[w]
        op == CurOp(w)
    IN  CASE op.op = "role" ->
                UpsertVertex(w, found, RoleVertex(op.rec), "role_node")
          [] op.op = "policy" ->
                UpsertVertex(w, found, PolicyVertex(op.rec), "policy_node")
          [] op.op = "has_policy" ->
                UpsertEdge(w, found,
                           Edge("HAS_POLICY", c.role_node, c.policy_node))
          [] op.op = "action" ->
                UpsertVertex(w, found, ActionVertex(op.name), "action_node")
          [] op.op = "permits" ->
                UpsertEdge(w, found,
                           Edge("PERMITS", c.policy_node, c.action_node))
          [] op.op = "find_role" -> LookupRole(w, found)
          [] op.op = "usage_action" ->
                UpsertVertex(w, found, ActionVertex(op.name), "action_node")
          [] op.op = "used_action" ->
                AnnotateEdge(w, found,
                             UsedActionEdge(c.role_node, c.action_node,
                                            c.start_time), now)

\* the invocation is over: its locals are gone, the connection closed
Finished(c, status) ==
    [IdleCall EXCEPT !.fn = c.fn, !.input = c.input,
                     !.start_time = c.start_time, !.conn = c.conn,
                     !.repeat = c.repeat, !.retry = c.retry,
                     !.pre = c.pre, !.ip = c.ip,
                     !.faulted = c.faulted,
                     !.status = status, !.closed = c.closed + 1]

\* Faulty variant: the handler logs the exception and returns.
ExceptSwallowed == "returned"

\* except Exception as e: print(..); raise -- the exception reaches the caller
ExceptStatus == "raised"

\* one request built, read and written in one step (one invocation at a time)
Request(w) ==
    /\ AtOp(w)
    /\ CurOp(w).op # "raise"
    /\ call[w].phase = "build"
    /\ IF CurOp(w).op = "used_action"
       THEN \E now \in Now : Effect(w, Found(w), now) /\ clock' = now
       ELSE Effect(w, Found(w), clock) /\ clock' = clock
    /\ UNCHANGED <<calls, faults, run>>

\* the client builds the USED_ACTION request: datetime.now(timezone.utc) is
\* evaluated before the request is sent
BuildStep(w) ==
    /\ AtOp(w)
    /\ CurOp(w).op = "used_action"
    /\ call[w].phase = "build"
    /\ \E now \in Now :
          /\ call' = [call EXCEPT ![w] = [@ EXCEPT !.phase = "read",
                                                   !.now = now]]
          /\ clock' = now
    /\ UNCHANGED <<V, E, calls, faults, obs, run>>

\* the read part of a request (the other requests carry no client-side time)
ReadStep(w) ==
    /\ AtOp(w)
    /\ \/ call[w].phase = "read"
       \/ call[w].phase = "build" /\ CurOp(w).op \notin {"used_action", "raise"}
    /\ call' = [call EXCEPT ![w] = [@ EXCEPT !.phase = "write",
                                             !.found = Found(w)]]
    /\ UNCHANGED <<V, E, clock, calls, faults, obs, run>>

\* the write part of a request, on what the read part found
WriteStep(w) ==
    /\ AtOp(w)
    /\ call[w].phase = "write"
    /\ Effect(w, call[w].found, call[w].now)
    /\ UNCHANGED <<clock, calls, faults, run>>

\* the client code throws (iterating None, .get on a non-dict)
Raise(w) ==
    /\ AtOp(w)
    /\ CurOp(w).op = "raise"
    /\ call' = [call EXCEPT ![w] = Finished(@, ExceptStatus)]
    /\ UNCHANGED <<V, E, clock, calls, faults, obs, run>>

\* the graph store fails the current request: nothing of it is written
Fail(w) ==
    /\ AtOp(w)
    /\ CurOp(w).op # "raise"
    /\ faults < MaxFaults
    /\ faults' = faults + 1
    /\ call' = [call EXCEPT ![w] =
                    Finished([@ EXCEPT !.faulted = TRUE], ExceptStatus)]
    /\ UNCHANGED <<V, E, clock, calls, obs, run>>

\* the loop is over: print(..); finally: g.close()
Return(w) ==
    /\ Running(w)
    /\ call[w].ip > Len(Ops(call[w]))
    /\ call' = [call EXCEPT ![w] = Finished(@, "returned")]
    /\ UNCHANGED <<V, E, clock, calls, faults, obs, run>>

\* ------------------------------------- one failure-free upsert, as a value

\* g.V().has(label, key, value) on the vertices Vs
hasIn(Vs, label, key, value) ==
    {i \in 1..Len(Vs) :
        /\ Vs[i].label = label
        /\ key \in DOMAIN Vs[i].props
        /\ Vs[i].props[key] = value}

\* V(to).inE(label).where(__.outV().is_(value)) on the edges Es
inEIn(Es, label, to, value, steps) ==
    {j \in 1..Len(Es) :
        /\ Es[j].label = label
        /\ Es[j].inV = to
        /\ OutVIs(Es[j], value, steps)}

\* fold().coalesce(unfold(), addV(..)).next() on graph s, binding `local`
FoldVertex(s, found, vertex, local) ==
    IF found = {}
    THEN [s EXCEPT !.V = Append(@, vertex), ![local] = Len(s.V) + 1]
    ELSE [s EXCEPT ![local] = CHOOSE n \in found : \A m \in found : n <= m]

\* coalesce(inE(..).where(..), addE(..).from_(..)).iterate() on graph s
FoldEdge(s, found, edge) ==
    IF found = {} THEN [s EXCEPT !.E = Append(@, edge)] ELSE s

\* one request of save_iam_data_to_neptune applied to graph s
Fold(s, op) ==
    CASE op.op = "role" ->
            FoldVertex(s, hasIn(s.V, "role", "arn", op.rec.arn),
                       RoleVertex(op.rec), "role_node")
      [] op.op = "policy" ->
            FoldVertex(s, hasIn(s.V, "policy", "arn", op.rec.arn),
                       PolicyVertex(op.rec), "policy_node")
      [] op.op = "has_policy" ->
            FoldEdge(s, inEIn(s.E, "HAS_POLICY", s.policy_node, "r",
                              [r |-> s.role_node]),
                     Edge("HAS_POLICY", s.role_node, s.policy_node))
      [] op.op = "action" ->
            FoldVertex(s, hasIn(s.V, "action", "name", op.name),
                       ActionVertex(op.name), "action_node")
      [] op.op = "permits" ->
            FoldEdge(s, inEIn(s.E, "PERMITS", s.action_node, "p",
                              [p |-> s.policy_node]),
                     Edge("PERMITS", s.policy_node, s.action_node))

RECURSIVE FoldFrom(_, _, _)
FoldFrom(ops, k, s) ==
    IF k > Len(ops) \/ ops[k].op = "raise" THEN s
    ELSE FoldFrom(ops, k + 1, Fold(s, ops[k]))

\* the graph one failure-free save_iam_data_to_neptune(iam_data) leaves when
\* it starts on the empty graph
SingleRun ==
    [b \in DOMAIN IamInputs |->
        FoldFrom(IamProgram[b], 1,
                 [V |-> <<>>, E |-> <<>>, role_node |-> 0, policy_node |-> 0,
                  action_node |-> 0])]

\* one invocation at a time, each request atomic
Next ==
    \/ StartIam(1, SeqIamInputs)
    \/ StartUsage(1, SeqUsageInputs)
    \/ Request(1)
    \/ Raise(1)
    \/ Fail(1)
    \/ Return(1)

Spec == Init /\ [][Next]_vars

\* two workers; requests of one fall between the build, the read and the
\* write of the other's
NextConc ==
    \E w \in Workers :
        \/ StartIam(w, ConcIamInputs)
        \/ StartUsage(w, ConcUsageInputs)
        \/ BuildStep(w)
        \/ ReadStep(w)
        \/ WriteStep(w)
        \/ Raise(w)
        \/ Fail(w)
        \/ Return(w)

SpecConc == Init /\ [][NextConc]_vars

\* ------------------------------------------------ the collector handler

\* what assume_customer_role returns: a session, or None on any exception
Sessions == {"None", "session"}

\* Faulty variant: the handler does not test the session.
SessionNeverNone(session) == FALSE

\* if session is None
SessionIsNone(session) == session = "None"

\* return {'statusCode': .., 'body': json.dumps({'message': ..})}
Respond(statusCode, message) ==
    [run EXCEPT !.pc = "done", !.statusCode = statusCode, !.message = message]

\* except Exception as e: return {'statusCode': 500, 'body': .. 'Fatal error ..'}
FatalError == Respond(500, "Fatal error during collection")

\* what the handler saw of a save function it called
SaveSeen(c) ==
    [fn |-> c.fn, input |-> c.input, conn |-> c.conn, status |-> c.status,
     wrote |-> (Len(V) # c.pre.nV \/ Len(E) # c.pre.nE)]

\* handler: session = assume_customer_role(..); if session is None: return 500
AssumeCustomerRole ==
    /\ run.pc = "idle"
    /\ \E session \in Sessions :
          run' = IF SessionIsNone(session)
                 THEN [Respond(500, "Failed to assume customer role.")
                          EXCEPT !.session = session]
                 ELSE [run EXCEPT !.pc = "identity", !.session = session]
    /\ UNCHANGED <<V, E, clock, call, calls, faults, obs>>

\* session.client('sts').get_caller_identity(): on None, or when STS fails,
\* the exception is caught by the handler
GetCallerIdentity ==
    /\ run.pc = "identity"
    /\ \E ok \in BOOLEAN :
          run' = IF ok /\ run.session # "None"
                 THEN [run EXCEPT !.pc = "collect_iam"]
                 ELSE FatalError
    /\ UNCHANGED <<V, E, clock, call, calls, faults, obs>>

\* collect_iam_data: the roles are listed, save_iam_data_to_neptune is called
CollectIamData ==
    /\ run.pc = "collect_iam"
    /\ call[1].fn = "none"
    /\ StartIam(1, SeqIamInputs)

\* an IAM or CloudTrail request of a collect function raises before its save
\* function is called
CollectRaises ==
    /\ \/ run.pc = "collect_iam" /\ call[1].fn = "none"
       \/ run.pc = "collect_usage" /\ call[1].fn = "iam"
    /\ run' = FatalError
    /\ UNCHANGED <<V, E, clock, call, calls, faults, obs>>

\* the save function is over: the handler goes on, or catches what it raised
SaveOver(fn, pc, response) ==
    /\ run.pc = pc
    /\ call[1].fn = fn
    /\ ~Running(1)
    /\ run' = IF call[1].status = "raised"
              THEN [FatalError EXCEPT !.saves = Append(@, SaveSeen(call[1]))]
              ELSE [response EXCEPT !.saves = Append(@, SaveSeen(call[1]))]
    /\ UNCHANGED <<V, E, clock, call, calls, faults, obs>>

\* collected_iam_data = collect_iam_data(..) has returned or raised
IamDataCollected ==
    SaveOver("iam", "collect_iam", [run EXCEPT !.pc = "collect_usage"])

\* collect_cloudtrail_usage: the events are read,
\* save_cloudtrail_data_to_neptune is called
CollectCloudtrailUsage ==
    /\ run.pc = "collect_usage"
    /\ call[1].fn = "iam"
    /\ StartUsage(1, SeqUsageInputs)

\* collected_usage_data = collect_cloudtrail_usage(..) has returned or raised
UsageCollected ==
    SaveOver("usage", "collect_usage", Respond(200, "Collection successful"))

\* one handler invocation
NextCollector ==
    \/ AssumeCustomerRole
    \/ GetCallerIdentity
    \/ CollectIamData
    \/ CollectRaises
    \/ IamDataCollected
    \/ CollectCloudtrailUsage
    \/ UsageCollected
    \/ Request(1)
    \/ Raise(1)
    \/ Fail(1)
    \/ Return(1)

SpecCollector == Init /\ [][NextCollector]_vars

\* ------------------------------------------------- the Exposure Scorer

\* scoring_handler.py: LOOKBACK_WINDOW = 90
LOOKBACK_WINDOW == 90

\* A Python float is modelled as the exact fraction n/d (d > 0); a score that
\* round(.., 2) returned is held in hundredths, as an integer.
Frac(n, d) == [n |-> n, d |-> d]

FracAdd(a, b) == Frac(a.n * b.d + b.n * a.d, a.d * b.d)

\* Faulty variant: the value is cut to 2 decimal places, not rounded.
round2Floor(x) == (100 * x.n) \div x.d

\* round(x, 2), in hundredths: the nearest hundredth, a tie going to the even
\* one
round2(x) ==
    LET fl == (100 * x.n) \div x.d
        rem == (100 * x.n) % x.d
    IN  IF 2 * rem < x.d THEN fl
        ELSE IF 2 * rem > x.d THEN fl + 1
        ELSE IF fl % 2 = 0 THEN fl ELSE fl + 1

\* calculate_iei(metrics)
calculate_iei(metrics) ==
    LET taa == metrics.total_allowed_actions
        ua == metrics.used_actions
        dslu == metrics.days_since_last_use
        pb == IF taa = 0 THEN Frac(0, 1)
              ELSE IF taa = ua THEN Frac(0, 1)
              ELSE Frac(50 * (taa - ua), taa)
        ui == Frac(50 * dslu, LOOKBACK_WINDOW)
    IN  [iei_score |-> round2(FracAdd(pb, ui)),
         pb_score |-> round2(pb),
         ui_score |-> round2(ui)]

\* the metrics dictionaries handed to calculate_iei
MetricsInputs ==
    [total_allowed_actions : 0..MaxActions, used_actions : 0..MaxActions,
     days_since_last_use : 0..MaxDays]

InitIei ==
    /\ V = <<>>
    /\ E = <<>>
    /\ clock = 0
    /\ call = [w \in Workers |-> IdleCall]
    /\ calls = 0
    /\ faults = 0
    /\ obs = <<>>
    /\ run \in [pc : {"metrics"}, metrics : MetricsInputs, scores : {<<>>}]

\* scores = calculate_iei(metrics)
CalculateIei ==
    /\ run.pc = "metrics"
    /\ run' = [run EXCEPT !.pc = "scored", !.scores = calculate_iei(run.metrics)]
    /\ UNCHANGED <<V, E, clock, call, calls, faults, obs>>

SpecIei == InitIei /\ [][CalculateIei]_vars

\* ------------------------------------------------- the scoring handler

\* g.V().has('role', 'arn', arn): the traversers, in vertex order
RoleTraversers(arn) ==
    Flatten([i \in 1..Len(V) |->
        IF V[i].label = "role" /\ V[i].props.arn = arn THEN <<i>> ELSE <<>>])

\* .out(label): every traverser moves over each of its outgoing edges
out(ts, label) ==
    Flatten([k \in 1..Len(ts) |->
        Flatten([j \in 1..Len(E) |->
            IF E[j].label = label /\ E[j].outV = ts[k]
            THEN <<E[j].inV>> ELSE <<>>])])

\* .dedup().count()
dedupCount(ts) == Cardinality({ts[k] : k \in DOMAIN ts})

\* the last_seen values of the USED_ACTION edges of the traversers
LastSeen(ts) ==
    {E[j].props.last_seen.iso :
        j \in {j \in 1..Len(E) :
                 /\ E[j].label = "USED_ACTION"
                 /\ \E k \in DOMAIN ts : E[j].outV = ts[k]}}

\* calculate_role_metrics(g, arn) read at time `now`; instants are days
calculate_role_metrics(arn, now) ==
    LET role == RoleTraversers(arn)
        seen == LastSeen(role)
    IN  [total_allowed_actions |->
             dedupCount(out(out(role, "HAS_POLICY"), "PERMITS")),
         used_actions |-> dedupCount(out(role, "USED_ACTION")),
         days_since_last_use |->
             IF seen = {} THEN LOOKBACK_WINDOW
             ELSE now - (CHOOSE t \in seen : \A u \in seen : u <= t)]

\* the handler's locals once g = get_graph_traversal() has returned
ScoringRun ==
    [pc |-> "list", conn |-> TRUE, role_arns |-> <<>>, i |-> 0,
     metrics |-> <<>>, scores |-> <<>>, items |-> <<>>, results |-> <<>>,
     closed |-> 0, statusCode |-> 0, message |-> "",
     failed |-> [stage |-> "none", i |-> 0]]

\* return {'statusCode': .., ..}, then finally: g.close()
ScoringResponse(r, statusCode, message) ==
    [r EXCEPT !.pc = "responded", !.statusCode = statusCode,
              !.message = message, !.closed = @ + 1]

\* Faulty variant: every iteration handles the first role.
RoleArnFirst(role_arns, i) == role_arns[1]

\* for arn in role_arns: the arn of iteration i
RoleArnAt(role_arns, i) == role_arns[i]

\* the saves that filled the graph before the pass
UpsertBeforeScoring == run.pc = "idle" /\ StartIam(1, ScoringIamInputs)

AnnotateBeforeScoring == run.pc = "idle" /\ StartUsage(1, ScoringUsageInputs)

\* g = get_graph_traversal(); if g is None: return 500
ScoringStart ==
    /\ run.pc = "idle"
    /\ ~Running(1)
    /\ \E conn \in BOOLEAN :
          run' = IF conn THEN ScoringRun
                 ELSE [ScoringRun EXCEPT
                          !.pc = "responded", !.conn = FALSE,
                          !.statusCode = 500,
                          !.message = "Failed to connect to graph for scoring."]
    /\ UNCHANGED <<V, E, clock, call, calls, faults, obs>>

\* role_arns = g.V().hasLabel('role').values('arn').toList(); results = []
ListRoles ==
    /\ run.pc = "list"
    /\ LET role_arns == Flatten([i \in 1..Len(V) |->
                IF V[i].label = "role" THEN <<V[i].props.arn>> ELSE <<>>])
       IN  run' = IF role_arns = <<>>
                  THEN ScoringResponse(run, 200, "Scoring complete")
                  ELSE [run EXCEPT !.pc = "metrics", !.role_arns = role_arns,
                                   !.i = 1]
    /\ UNCHANGED <<V, E, clock, call, calls, faults, obs>>

\* metrics = calculate_role_metrics(g, arn)
ExtractMetrics ==
    /\ run.pc = "metrics"
    /\ \E now \in Now :
          /\ clock' = now
          /\ run' = [run EXCEPT
                 !.pc = "score",
                 !.metrics = calculate_role_metrics(
                                 RoleArnAt(run.role_arns, run.i), now)]
    /\ UNCHANGED <<V, E, call, calls, faults, obs>>

\* scores = calculate_iei(metrics)
ScoreRole ==
    /\ run.pc = "score"
    /\ run' = [run EXCEPT !.pc = "put", !.scores = calculate_iei(run.metrics)]
    /\ UNCHANGED <<V, E, clock, call, calls, faults, obs>>

\* table.put_item(Item={..}); results.append({..}); the next role, or the
\* return after the last one
PutItem ==
    /\ run.pc = "put"
    /\ \E now \in Now :
          /\ clock' = now
          /\ LET arn == RoleArnAt(run.role_arns, run.i)
                 r == [run EXCEPT
                          !.items = Append(@, [arn |-> arn,
                              iei_score |-> run.scores.iei_score,
                              pb_score |-> run.scores.pb_score,
                              ui_score |-> run.scores.ui_score,
                              timestamp |-> isoformat(now)]),
                          !.results = Append(@, [arn |-> arn,
                              score |-> run.scores.iei_score])]
             IN  run' = IF run.i = Len(run.role_arns)
                        THEN ScoringResponse(r, 200, "Scoring complete")
                        ELSE [r EXCEPT !.pc = "metrics", !.i = @ + 1]
    /\ UNCHANGED <<V, E, call, calls, faults, obs>>

\* Faulty variant: the failure of one role is caught inside the loop and the
\* pass goes on with the next role.
ExceptNextRole(r) ==
    IF r.i >= Len(r.role_arns)
    THEN ScoringResponse(r, 200, "Scoring complete")
    ELSE [r EXCEPT !.pc = "metrics", !.i = @ + 1]

\* except Exception as e: g.close(); return {'statusCode': 500, ..}, then
\* finally: g.close()
ExceptScoring(r) ==
    ScoringResponse([r EXCEPT !.closed = @ + 1], 500, "Scoring process failed")

\* the graph request, calculate_iei or put_item of the current step raises
ScoringFails ==
    /\ run.pc \in {"list", "metrics", "score", "put"}
    /\ run' = ExceptScoring([run EXCEPT
                                !.failed = [stage |-> run.pc, i |-> run.i]])
    /\ UNCHANGED <<V, E, clock, call, calls, faults, obs>>

\* saves fill the graph, then one scoring pass
NextScoring ==
    \/ UpsertBeforeScoring
    \/ AnnotateBeforeScoring
    \/ Request(1)
    \/ Return(1)
    \/ ScoringStart
    \/ ListRoles
    \/ ExtractMetrics
    \/ ScoreRole
    \/ PutItem
    \/ ScoringFails

SpecScoring == Init /\ [][NextScoring]_vars

\* ---------------------------------------------- collect_cloudtrail_usage

Arn1 == <<"r", "1">>
Arn2 == <<"r", "2">>
\* event sources: '<service>.amazonaws.com', and one with a further label
SrcS == <<"s", ".", "a">>
SrcK == <<"k", ".", "e", ".", "a">>

\* the event a role session leaves in the trail
EventData(arn, source, name) ==
    [userIdentity |->
         [type |-> "AssumedRole",
          sessionContext |-> [sessionIssuer |-> [arn |-> PyStr(arn)]]],
     eventName |-> PyStr(name),
     eventSource |-> PyStr(source)]

\* the events of a lookup_events page, by name
Events ==
    [Get1 |-> [CloudTrailEvent |-> json_dumps(EventData(Arn1, SrcS, <<"g">>))],
     Put2 |-> [CloudTrailEvent |-> json_dumps(EventData(Arn2, SrcK, <<"p">>))],
     Denied |-> [CloudTrailEvent |-> json_dumps(
                    [errorCode |-> PyStr(<<"A">>)]
                        @@ EventData(Arn1, SrcS, <<"d">>))],
     Message |-> [CloudTrailEvent |-> json_dumps(
                    [errorMessage |-> PyStr(<<"m">>)]
                        @@ EventData(Arn2, SrcS, <<"d">>))],
     NotJson |-> [CloudTrailEvent |-> [text |-> "{"]],
     NoText |-> [EventId |-> "e"],
     NoSession |-> [CloudTrailEvent |-> json_dumps(
                    [userIdentity |-> [type |-> "AssumedRole"],
                     eventName |-> PyStr(<<"d">>),
                     eventSource |-> PyStr(SrcS)])],
     User |-> [CloudTrailEvent |-> json_dumps(
                    [userIdentity |-> [type |-> "IAMUser"],
                     eventName |-> PyStr(<<"d">>),
                     eventSource |-> PyStr(SrcS)])],
     NoName |-> [CloudTrailEvent |-> json_dumps(
                    [userIdentity |-> EventData(Arn1, SrcS, <<>>).userIdentity,
                     eventSource |-> PyStr(SrcS)])]]

\* the event sequences a lookup returns, as sequences of names
EventSeqs == UNION {[1..n -> DOMAIN Events] : n \in 0..MaxEvents}

\* s.split(sep)[0]
RECURSIVE SplitHead(_, _)
SplitHead(s, sep) ==
    IF s = <<>> \/ Head(s) = sep THEN <<>>
    ELSE <<Head(s)>> \o SplitHead(Tail(s), sep)

\* the truth value of a str or None
Truthy(v) == v.type = "str" /\ v.val # <<>>

\* if role_arn not in used_actions_by_role: .. = set();
\* used_actions_by_role[role_arn].add(action)
AddUsed(used, role_arn, action) ==
    IF \E i \in DOMAIN used : used[i].arn = role_arn
    THEN [i \in DOMAIN used |->
             IF used[i].arn = role_arn
             THEN [used[i] EXCEPT !.actions = @ \cup {action}]
             ELSE used[i]]
    ELSE Append(used, [arn |-> role_arn, actions |-> {action}])

\* the try block for one event: the mapping after it, and whether an
\* exception was caught
ParseEvent(used, event) ==
    LET caught == [used |-> used, raised |-> TRUE]
        skipped == [used |-> used, raised |-> FALSE]
    IN  IF "CloudTrailEvent" \notin DOMAIN event THEN caught
        ELSE IF "json" \notin DOMAIN event.CloudTrailEvent THEN caught
        ELSE
          LET event_data == event.CloudTrailEvent.json
              user_identity == DictGet(event_data, "userIdentity", <<>>)
          IN  IF \/ Truthy(DictGet(event_data, "errorCode", PyNone))
                 \/ Truthy(DictGet(event_data, "errorMessage", PyNone))
              THEN skipped
              ELSE IF DictGet(user_identity, "type", "None") # "AssumedRole"
              THEN skipped
              ELSE IF "sessionContext" \notin DOMAIN user_identity THEN caught
              ELSE
                LET role_arn == user_identity.sessionContext.sessionIssuer.arn
                    event_action == DictGet(event_data, "eventName", PyNone)
                    event_source == DictGet(event_data, "eventSource", PyNone)
                IN  IF Truthy(role_arn) /\ Truthy(event_action)
                          /\ Truthy(event_source)
                    THEN [used |-> AddUsed(used, role_arn.val,
                                      SplitHead(event_source.val, ".")
                                          \o <<":">> \o event_action.val),
                          raised |-> FALSE]
                    ELSE skipped

\* Faulty variant: an exception ends the loop over the events.
AfterEventBreak(n, k, raised) == IF raised THEN n + 1 ELSE k + 1

\* the next event: `continue` after an exception as after a normal pass
AfterEvent(n, k, raised) == k + 1

InitUsage ==
    /\ V = <<>>
    /\ E = <<>>
    /\ clock = 0
    /\ call = [w \in Workers |-> IdleCall]
    /\ calls = 0
    /\ faults = 0
    /\ obs = <<>>
    /\ run \in [pc : {"start"}, events : EventSeqs, k : {1}, start_time : {0},
                used : {<<>>}, caught : {0}, saved : {<<>>}, result : {<<>>}]

\* end_time = datetime.now(timezone.utc); start_time = end_time - ..;
\* used_actions_by_role = {}
BeginUsageCollection ==
    /\ run.pc = "start"
    /\ \E end_time \in Now :
          /\ clock' = end_time
          /\ run' = [run EXCEPT !.pc = "events",
                                !.start_time = end_time - LOOKBACK_DAYS]
    /\ UNCHANGED <<V, E, call, calls, faults, obs>>

\* for event in response.get('Events', []): one pass of the loop
NextEvent ==
    /\ run.pc = "events"
    /\ run.k <= Len(run.events)
    /\ LET o == ParseEvent(run.used, Events[run.events[run.k]])
       IN  run' = [run EXCEPT
                      !.used = o.used,
                      !.caught = @ + (IF o.raised THEN 1 ELSE 0),
                      !.k = AfterEvent(Len(run.events), run.k, o.raised)]
    /\ UNCHANGED <<V, E, clock, call, calls, faults, obs>>

\* used_actions_list = {..}; save_cloudtrail_data_to_neptune(used_actions_list,
\* start_time), which returns or raises; return used_actions_list
SaveUsage ==
    /\ run.pc = "events"
    /\ run.k > Len(run.events)
    /\ \E ok \in BOOLEAN :
          run' = [run EXCEPT
                     !.pc = IF ok THEN "returned" ELSE "raised",
                     !.saved = Append(@, [used_actions_by_role |-> run.used,
                                          start_time |-> run.start_time]),
                     !.result = IF ok THEN run.used ELSE <<>>]
    /\ UNCHANGED <<V, E, clock, call, calls, faults, obs>>

NextUsage ==
    \/ BeginUsageCollection
    \/ NextEvent
    \/ SaveUsage

SpecUsage == InitUsage /\ [][NextUsage]_vars

\* ------------------------------------------------------------ properties

\* the natural key of a vertex: arn for roles and policies, name for actions
NaturalKey(v) == IF v.label = "action" THEN v.props.name ELSE v.props.arn

UniqueNodes ==
    \A i, j \in 1..Len(V) :
        (V[i].label = V[j].label /\ NaturalKey(V[i]) = NaturalKey(V[j]))
            => i = j

UniqueEdges ==
    \A i, j \in 1..Len(E) :
        (/\ E[i].label = E[j].label
         /\ E[i].outV = E[j].outV
         /\ E[i].inV = E[j].inV) => i = j

\* the edges with this label from a vertex with key `from` to one with key `to`
EdgesBetween(label, fromLabel, from, toLabel, to) ==
    {j \in 1..Len(E) :
        /\ E[j].label = label
        /\ V[E[j].outV].label = fromLabel
        /\ NaturalKey(V[E[j].outV]) = from
        /\ V[E[j].inV].label = toLabel
        /\ NaturalKey(V[E[j].inV]) = to}

GraphLabels == {"role", "policy", "action", "HAS_POLICY", "PERMITS"}

\* C1: an upsert that completes right after a completed upsert of the same
\* batch leaves the numbers of Role, Policy and Action nodes and of HAS_POLICY
\* and PERMITS edges as the first one left them.
C1_UpsertIdempotent ==
    LET c == call[1]
    IN  (c.fn = "iam" /\ c.status = "returned" /\ c.conn /\ c.repeat)
            => \A l \in GraphLabels : Counts[l] = c.pre.counts[l]

\* C2: with one invocation at a time, the graph never holds two Role nodes
\* with one arn, two Policy nodes with one arn or two Action nodes with one
\* name.
C2_OneNodePerKey == UniqueNodes

\* upserts of a batch whose roles share a policy, then a usage annotation that
\* wrote an edge, have completed
C2_Witness ==
    /\ call[1].fn = "usage" /\ call[1].status = "returned"
    /\ Len(obs) > 0
    /\ EdgesBetween("HAS_POLICY", "role", "r1", "policy", "p1") # {}
    /\ EdgesBetween("HAS_POLICY", "role", "r2", "policy", "p1") # {}
    /\ Counts["policy"] >= 2

\* C3: with one invocation at a time, the graph never holds two edges with
\* the same label, source and target.
C3_OneEdgePerTriple == UniqueEdges

\* C4: with two workers whose find-or-create requests read and then write,
\* the graph never holds two nodes with one natural key nor two edges with
\* one (source, target, label) triple.
C4_NoDuplicatesConcurrent == UniqueNodes /\ UniqueEdges

\* a name with a "*" in it
IsWildcardName(n) == \E k \in DOMAIN n : n[k] = "*"

\* the action names the Allow statements of a policy document list
AllowedNames(document) ==
    LET stmts == document.val.Statement
    IN  UNION {IF stmts[i].Effect = "Allow" /\ "Action" \in DOMAIN stmts[i]
               THEN IF stmts[i].Action.type = "str"
                    THEN {stmts[i].Action.val}
                    ELSE {stmts[i].Action.val[k] :
                             k \in DOMAIN stmts[i].Action.val}
               ELSE {} : i \in DOMAIN stmts}

OnlyWildcard(document) ==
    AllowedNames(document) # {} /\ \A n \in AllowedNames(document) : n = ActAll

VerticesOf(label, key) ==
    {v \in 1..Len(V) : V[v].label = label /\ NaturalKey(V[v]) = key}

\* C5: no PERMITS edge ends at an Action node with a wildcard name; and when
\* an upsert has completed, each policy of its batch whose only Allow action
\* is "*" has its Role node, its Policy node and the HAS_POLICY edge, but no
\* PERMITS edge, and the graph holds no wildcard Action node.
C5_WildcardExcluded ==
    /\ \A j \in 1..Len(E) :
          E[j].label = "PERMITS" => ~IsWildcardName(V[E[j].inV].props.name)
    /\ LET c == call[1]
       IN  (c.fn = "iam" /\ c.status = "returned" /\ c.conn) =>
             \A i \in DOMAIN IamInputs[c.input] :
               \A p \in DOMAIN IamInputs[c.input][i].policies :
                 LET role == IamInputs[c.input][i]
                     pol == role.policies[p]
                 IN  OnlyWildcard(pol.document) =>
                       /\ VerticesOf("role", role.arn) # {}
                       /\ VerticesOf("policy", pol.arn) # {}
                       /\ EdgesBetween("HAS_POLICY", "role", role.arn,
                                       "policy", pol.arn) # {}
                       /\ \A j \in 1..Len(E) :
                             E[j].label = "PERMITS"
                                => NaturalKey(V[E[j].outV]) # pol.arn
                       /\ \A v \in 1..Len(V) :
                             V[v].label = "action"
                                => ~IsWildcardName(V[v].props.name)

\* an upsert of a batch with a wildcard-only policy and one of a document that
\* mixes "s:*" with a plain action have completed
C5_Witness ==
    /\ call[1].fn = "iam" /\ call[1].status = "returned" /\ call[1].conn
    /\ call[1].input = "Shared"
    /\ VerticesOf("policy", "p2") # {}
    /\ EdgesBetween("PERMITS", "policy", "p1", "action", ActPut) # {}
    /\ Counts["PERMITS"] >= 2

\* C6: a PERMITS edge and a USED_ACTION edge that end at Action nodes of one
\* name end at the same node, and that name has a single node.
C6_PermitsAndUsageConverge ==
    \A i \in 1..Len(E) :
        E[i].label = "PERMITS" =>
            \A j \in 1..Len(E) :
                (/\ E[j].label = "USED_ACTION"
                 /\ V[E[i].inV].props.name = V[E[j].inV].props.name)
                    => /\ E[i].inV = E[j].inV
                       /\ VerticesOf("action", V[E[i].inV].props.name)
                             = {E[i].inV}

\* both orders: an action used before a policy permitted it, and another
\* permitted before it was used
C6_Witness ==
    \E i, j, m, n \in 1..Len(E) :
        /\ E[i].label = "PERMITS" /\ E[j].label = "USED_ACTION"
        /\ E[i].inV = E[j].inV /\ j < i
        /\ \A k \in 1..Len(E) :
              (E[k].label = "PERMITS" /\ E[k].inV = E[i].inV) => j < k
        /\ E[m].label = "PERMITS" /\ E[n].label = "USED_ACTION"
        /\ E[m].inV = E[n].inV /\ m < n
        /\ \A k \in 1..Len(E) :
              (E[k].label = "USED_ACTION" /\ E[k].inV = E[m].inV) => m < k

\* the annotation writes made for a (role arn, action name) pair
PairObs(arn, name) ==
    {k \in 1..Len(obs) : obs[k].arn = arn /\ obs[k].name = name}

\* C7: once a pair has been annotated at t1 and later again at t2 > t1, its
\* USED_ACTION edge carries the window start of the first annotation as
\* lookback_start and t2 as last_seen.
C7_LookbackOnceLastSeenLatest ==
    \A k1, k2 \in 1..Len(obs) :
        (/\ obs[k1].arn = obs[k2].arn /\ obs[k1].name = obs[k2].name
         /\ obs[k1].now < obs[k2].now
         /\ \A k \in PairObs(obs[k1].arn, obs[k1].name) : k1 <= k /\ k <= k2)
            => \A j \in EdgesBetween("USED_ACTION", "role", obs[k1].arn,
                                     "action", obs[k1].name) :
                  /\ E[j].props.lookback_start = isoformat(obs[k1].start)
                  /\ E[j].props.last_seen = isoformat(obs[k2].now)

\* the latest last_seen among the pair's USED_ACTION edges (-1: no edge);
\* unprimed and primed, as the two states of a step
PairLastSeen(arn, name) ==
    LET es == EdgesBetween("USED_ACTION", "role", arn, "action", name)
    IN  IF es = {} THEN -1
        ELSE CHOOSE t \in {E[j].props.last_seen.iso : j \in es} :
                \A j \in es : E[j].props.last_seen.iso <= t

C9_UnknownRoleSkipped ==
    LET c == call[1]
    IN  (c.fn = "usage" /\ c.conn /\ ~Running(1) /\ ~c.faulted) =>
          /\ c.status = "returned"
          /\ \A i \in DOMAIN UsageInputs[c.input] :
                LET item == UsageInputs[c.input][i]
                IN  IF \A v \in 1..c.pre.nV :
                          V[v].label = "role" => V[v].props.arn # item.arn
                    THEN /\ VerticesOf("role", item.arn) = {}
                         /\ \A j \in c.pre.nE + 1..Len(E) :
                               NaturalKey(V[E[j].outV]) # item.arn
                    ELSE \A a \in DOMAIN item.actions :
                            \E j \in EdgesBetween("USED_ACTION", "role",
                                        item.arn, "action", item.actions[a]) :
                               E[j].props.last_seen.iso >= c.pre.clock

\* the unknown ARN came first in this mapping and last in the one annotated
\* before it (the one that uses s:d alone), and the known role of both was
\* annotated
C9_Witness ==
    /\ call[1].fn = "usage" /\ call[1].status = "returned" /\ call[1].conn
    /\ call[1].input = "UnknownFirst"
    /\ \E k \in 1..Len(obs) - 1 :
          obs[k].name = ActDel /\ obs[k + 1].name = ActGet
    /\ VerticesOf("role", "r2") = {}
    /\ VerticesOf("role", "r1") # {}
    /\ Len(E) >= call[1].pre.nE + 2

\* everything the upsert writes for one role record
Materialised(role) ==
    /\ VerticesOf("role", role.arn) # {}
    /\ \A p \in DOMAIN role.policies :
          LET pol == role.policies[p]
          IN  /\ VerticesOf("policy", pol.arn) # {}
              /\ EdgesBetween("HAS_POLICY", "role", role.arn,
                              "policy", pol.arn) # {}
              /\ \A n \in AllowedNames(pol.document) :
                    ~IsWildcardName(n) =>
                       /\ VerticesOf("action", n) # {}
                       /\ EdgesBetween("PERMITS", "policy", pol.arn,
                                       "action", n) # {}

\* C10: an upsert that stopped at a request of its k-th role ended by raising;
\* the Role and Policy nodes it created belong to roles 1..k, and every node
\* and edge of roles 1..k-1 is in the graph.
C10_FailureSurfacesPartialWritesRemain ==
    LET c == call[1]
    IN  (c.fn = "iam" /\ c.conn /\ ~Running(1) /\ c.ip <= Len(Ops(c))) =>
          LET k == Ops(c)[c.ip].ri
              batch == IamInputs[c.input]
          IN  /\ c.status = "raised"
              /\ \A v \in c.pre.nV + 1..Len(V) :
                    /\ V[v].label = "role" =>
                          \E i \in 1..k : batch[i].arn = V[v].props.arn
                    /\ V[v].label = "policy" =>
                          \E i \in 1..k : \E p \in DOMAIN batch[i].policies :
                             batch[i].policies[p].arn = V[v].props.arn
              /\ \A i \in 1..k - 1 : Materialised(batch[i])

\* the store failed a request of the second role, after the role's own node
\* was written
C10_Witness ==
    /\ call[1].fn = "iam" /\ call[1].status = "raised" /\ call[1].faulted
    /\ call[1].input = "Shared"
    /\ Ops(call[1])[call[1].ip].op = "has_policy"
    /\ Ops(call[1])[call[1].ip].ri = 2
    /\ call[1].pre.nV = 0

\* C11: when the first upsert of a run was stopped by a store failure and the
\* caller's retry with the same input completed, the graph is the one a single
\* failure-free upsert of that input leaves on the empty graph.
C11_RetrySafe ==
    LET c == call[1]
    IN  (c.fn = "iam" /\ c.status = "returned" /\ c.conn /\ c.retry
         /\ calls = 2)
            => /\ V = SingleRun[c.input].V
               /\ E = SingleRun[c.input].E

\* the first upsert, undisturbed, leaves the graph of SingleRun
SingleRunAgrees ==
    LET c == call[1]
    IN  (c.fn = "iam" /\ c.conn /\ ~Running(1) /\ ~c.faulted /\ calls = 1)
            => /\ V = SingleRun[c.input].V
               /\ E = SingleRun[c.input].E

\* C12: when the graph store was unreachable at the start of a save function
\* the handler called, that function did not return normally, it wrote
\* nothing, and the handler's response is not the success response.
C12_UnreachableStoreSurfaced ==
    run.pc = "done" =>
        \A k \in 1..Len(run.saves) :
            ~run.saves[k].conn =>
                /\ ~run.saves[k].wrote
                /\ run.saves[k].status = "raised"
                /\ run.statusCode # 200

\* a policy record whose document is a statement container and whose Allow
\* statements all carry an Action that is a string or a list
WellFormed(pol) ==
    /\ pol.document.type = "dict"
    /\ \A i \in DOMAIN pol.document.val.Statement :
          LET st == pol.document.val.Statement[i]
          IN  st.Effect = "Allow" =>
                 /\ "Action" \in DOMAIN st
                 /\ st.Action.type \in {"str", "list"}

\* C13: an upsert that no store failure interrupts returns normally, whatever
\* policy documents its batch holds, and every role of the batch has its Role
\* node and, for each of its well-formed policies, the Policy node, the
\* HAS_POLICY edge and the Action nodes and PERMITS edges of its plain actions.
C13_MalformedPolicySkipped ==
    LET c == call[1]
    IN  (c.fn = "iam" /\ c.conn /\ ~Running(1) /\ ~c.faulted) =>
          /\ c.status = "returned"
          /\ \A i \in DOMAIN IamInputs[c.input] :
                LET role == IamInputs[c.input][i]
                IN  Materialised([role EXCEPT !.policies =
                        SelectSeq(role.policies, WellFormed)])

\* the plain (wildcard-free) action names the Allow statements of a document
\* list
PlainAllowed(document) ==
    {n \in AllowedNames(document) : ~IsWildcardName(n)}

\* the action names policy `arn` has a PERMITS edge to
Permitted(arn) ==
    {V[E[j].inV].props.name :
        j \in {k \in 1..Len(E) :
                 /\ E[k].label = "PERMITS"
                 /\ V[E[k].outV].label = "policy"
                 /\ V[E[k].outV].props.arn = arn}}

\* C14 as stated: once an upsert has completed, each policy of its batch has
\* PERMITS edges to exactly the plain actions that the Allow statements of
\* its document list.
C14_PermitsIffAllowed ==
    LET c == call[1]
        batch == IamInputs[c.input]
    IN  (c.fn = "iam" /\ c.conn /\ c.status = "returned") =>
           \A i \in DOMAIN batch : \A p \in DOMAIN batch[i].policies :
              Permitted(batch[i].policies[p].arn)
                 = PlainAllowed(batch[i].policies[p].document)

\* the policy record the upsert is processing at request ip
PolicyAt(c) ==
    LET ops == Ops(c)
        m == CHOOSE k \in 1..c.ip :
                ops[k].op = "policy" /\ \A n \in k + 1..c.ip : ops[n].op # "policy"
    IN  ops[m].rec

\* once an upsert has completed, each policy of its batch has a PERMITS edge
\* to every plain action its Allow statements list
PermitsWritten ==
    LET c == call[1]
        batch == IamInputs[c.input]
    IN  (c.fn = "iam" /\ c.conn /\ c.status = "returned") =>
           \A i \in DOMAIN batch : \A p \in DOMAIN batch[i].policies :
              PlainAllowed(batch[i].policies[p].document)
                 \subseteq Permitted(batch[i].policies[p].arn)

\* C14 amended: a step adds a PERMITS edge only from the policy being
\* upserted to an Action node named by a plain action of an Allow statement
\* of the document being upserted (none for a Deny statement or a wildcard);
\* no step removes a PERMITS edge; and once an upsert has completed, each
\* policy of its batch has a PERMITS edge to every plain action its Allow
\* statements list, given as a string or in a list.
C14_PermitsIffAllowedInSomeUpsert ==
    [][/\ \A j \in 1..Len(E) : j <= Len(E') /\ E'[j] = E[j]
       /\ \A j \in Len(E) + 1..Len(E') :
             E'[j].label = "PERMITS" =>
                /\ Running(1) /\ call[1].fn = "iam"
                /\ V'[E'[j].outV].label = "policy"
                /\ V'[E'[j].outV].props.arn = PolicyAt(call[1]).arn
                /\ V'[E'[j].inV].label = "action"
                /\ V'[E'[j].inV].props.name
                      \in PlainAllowed(PolicyAt(call[1]).document)
       /\ PermitsWritten']_vars

\* a policy was upserted with an Allow action given as a string and again
\* with a document that denies an action and allows a list, and it permits
\* the plain actions of both
C14_Witness ==
    /\ call[1].fn = "iam" /\ call[1].status = "returned" /\ call[1].conn
    /\ call[1].input = "Mixed"
    /\ Permitted("p1") = {ActGet, ActPut}
    /\ VerticesOf("action", ActDel) = {}

\* C15: no step changes the label or any property of a node the graph already
\* holds, and no step removes a node.
C15_NodesImmutable ==
    [][\A i \in 1..Len(V) : i <= Len(V') /\ V'[i] = V[i]]_vars

\* an upsert whose records carry r1 and p1 with another name, account, type
\* and document than the stored nodes has completed
C15_Witness ==
    /\ call[1].fn = "iam" /\ call[1].status = "returned" /\ call[1].conn
    /\ call[1].input = "Mixed"
    /\ \E v \in VerticesOf("role", "r1") :
          V[v].props.name = "A" /\ V[v].props.account_id = "acct"
    /\ \E v \in VerticesOf("policy", "p1") :
          /\ V[v].props.name = "Get" /\ V[v].props.type = "managed"
          /\ V[v].props.document = json_dumps(DocGet)

\* hundredths c is a nearest hundredth of the fraction n/d (d > 0)
Nearest(c, n, d) ==
    LET err == 100 * n - c * d
    IN  2 * (IF err < 0 THEN -err ELSE err) <= d

\* C16: for metrics TAA, UA in 0..MaxActions and DSLU in 0..MaxDays the scores
\* returned are, to the nearest hundredth, PB = 0 when TAA = 0 or TAA = UA
\* and 50*(TAA-UA)/TAA otherwise, UI = 50*DSLU/90 (above 50 when DSLU > 90)
\* and IEI = PB + UI; with the values the spec lists for TAA=10,UA=0,
\* DSLU=90, DSLU=0 and TAA=3,UA=1,DSLU=5.
C16_ScoreFormula ==
    run.pc = "scored" =>
        LET taa == run.metrics.total_allowed_actions
            ua == run.metrics.used_actions
            dslu == run.metrics.days_since_last_use
            sc == run.scores
        IN  /\ (taa = 0 \/ taa = ua) => sc.pb_score = 0
            /\ (taa # 0 /\ taa # ua) =>
                   Nearest(sc.pb_score, 50 * (taa - ua), taa)
            /\ Nearest(sc.ui_score, 50 * dslu, 90)
            /\ dslu > 90 => sc.ui_score > 5000
            /\ IF taa = 0 \/ taa = ua
               THEN Nearest(sc.iei_score, 50 * dslu, 90)
               ELSE Nearest(sc.iei_score,
                            50 * (taa - ua) * 90 + 50 * dslu * taa, 90 * taa)
            /\ (taa = 10 /\ ua = 0) => sc.pb_score = 5000
            /\ dslu = 90 => sc.ui_score = 5000
            /\ dslu = 0 => sc.ui_score = 0
            /\ (taa = 3 /\ ua = 1 /\ dslu = 5) =>
                   /\ sc.pb_score = 3333
                   /\ sc.ui_score = 278
                   /\ sc.iei_score = 3611

\* the spec's worked example has been scored
C16_Witness ==
    /\ run.pc = "scored"
    /\ run.metrics = [total_allowed_actions |-> 3, used_actions |-> 1,
                      days_since_last_use |-> 5]
    /\ run.scores.iei_score = 3611

\* C17: when the extraction, the scoring or the sink write of a role fails
\* during a scoring pass, the pass ends with the response 500 'Scoring process
\* failed', and the sink and the results hold exactly the roles before the
\* failed one: no later role is scored or emitted.
C17_FailureAbortsPass ==
    run.pc \in {"list", "metrics", "score", "put", "responded"}
        /\ run.failed.stage # "none" =>
            /\ run.pc = "responded"
            /\ run.statusCode = 500
            /\ run.message = "Scoring process failed"
            /\ Len(run.items) = (IF run.failed.i = 0 THEN 0 ELSE run.failed.i - 1)
            /\ \A k \in 1..Len(run.items) :
                  run.items[k].arn = run.role_arns[k]
            /\ Len(run.results) = Len(run.items)

\* the sink write of the first of two roles failed: nothing was emitted
C17_Witness ==
    /\ run.pc = "responded"
    /\ Len(run.role_arns) = 2
    /\ run.failed = [stage |-> "put", i |-> 1]
    /\ run.items = <<>>

\* the policies over which action node a is reached from the role nodes of arn
PoliciesPermitting(arn, a) ==
    {p \in 1..Len(V) :
        \E r \in 1..Len(V), h \in 1..Len(E), e \in 1..Len(E) :
            /\ V[r].label = "role" /\ V[r].props.arn = arn
            /\ E[h].label = "HAS_POLICY" /\ E[h].outV = r /\ E[h].inV = p
            /\ E[e].label = "PERMITS" /\ E[e].outV = p /\ E[e].inV = a}

\* the Action nodes reachable from the role over HAS_POLICY then PERMITS
ReachableActions(arn) ==
    {a \in 1..Len(V) :
        V[a].label = "action" /\ PoliciesPermitting(arn, a) # {}}

C19_AssumeFailureStopsRun ==
    run.pc # "idle" /\ run.session = "None" =>
        /\ run.pc = "done"
        /\ run.statusCode = 500
        /\ run.message = "Failed to assume customer role."
        /\ run.saves = <<>>
        /\ calls = 0
        /\ call[1] = IdleCall
        /\ V = <<>> /\ E = <<>>

\* a run in which the role could not be assumed has ended
C19_Witness ==
    /\ run.pc = "done"
    /\ run.session = "None"
    /\ run.statusCode = 500

\* the (role ARN, action) pairs of a mapping
PairsOf(used) ==
    UNION {{<<used[i].arn, a>> : a \in used[i].actions} : i \in DOMAIN used}

\* the event is a successful call of a role session: it has a text that is
\* JSON, no error code and no error message, an AssumedRole identity with
\* the ARN of its role, an operation and a source
Successful(event) ==
    /\ "CloudTrailEvent" \in DOMAIN event
    /\ "json" \in DOMAIN event.CloudTrailEvent
    /\ LET d == event.CloudTrailEvent.json
       IN  /\ {"errorCode", "errorMessage"} \cap DOMAIN d = {}
           /\ {"userIdentity", "eventName", "eventSource"} \subseteq DOMAIN d
           /\ d.userIdentity.type = "AssumedRole"
           /\ "sessionContext" \in DOMAIN d.userIdentity

\* (role ARN, '<service>:<operation>') of a successful event: the service is
\* the source up to its first dot
PairOf(event) ==
    LET d == event.CloudTrailEvent.json
        source == d.eventSource.val
        dots == {i \in 1..Len(source) : source[i] = "."}
        dot == CHOOSE i \in dots : \A j \in dots : i <= j
    IN  <<d.userIdentity.sessionContext.sessionIssuer.arn.val,
          SubSeq(source, 1, dot - 1) \o <<":">> \o d.eventName.val>>

\* C20: once collect_cloudtrail_usage is over, the Usage Annotator has been
\* invoked exactly once, with a mapping that holds the pair (role ARN,
\* service:operation) exactly for the successful AssumedRole events of the
\* sequence, whatever failed or unparsable events stand before them; the
\* mapping returned is the one handed over, and no role has an empty set.
C20_UsageMappingExact ==
    /\ Len(run.saved) <= 1
    /\ run.pc \in {"returned", "raised"} =>
          /\ Len(run.saved) = 1
          /\ PairsOf(run.saved[1].used_actions_by_role) =
                {PairOf(Events[run.events[k]]) :
                    k \in {k \in DOMAIN run.events :
                              Successful(Events[run.events[k]])}}
          /\ \A i \in DOMAIN run.saved[1].used_actions_by_role :
                run.saved[1].used_actions_by_role[i].actions # {}
          /\ run.pc = "returned" =>
                run.result = run.saved[1].used_actions_by_role

\* an unparsable event and a failed event stood before a successful one,
\* whose pair is in the mapping returned
C20_Witness ==
    /\ run.pc = "returned"
    /\ run.events = <<"NotJson", "Denied", "Get1">>
    /\ run.caught = 1
    /\ PairsOf(run.result) = {<<Arn1, ActGet>>}

\* the roles of usage mapping `usage` that batch `iam` lists, with an action
\* each of them used
ListedAndUsed(iam, usage) ==
    UNION {{<<usage[i].arn, usage[i].actions[j]>> :
               j \in DOMAIN usage[i].actions} :
              i \in {i \in DOMAIN usage :
                        \E k \in DOMAIN iam : iam[k].arn = usage[i].arn}}

\* C21: in one run of the collector handler the usage annotation starts only
\* after the identity upsert is over, and when the run reports success every
\* role that is both in the run's IAM listing and in its usage data has a
\* USED_ACTION edge to each action it used: it was not skipped as unknown.
C21_ListedRolesAnnotated ==
    /\ call[1].fn = "usage" =>
          /\ Len(run.saves) >= 1
          /\ run.saves[1].fn = "iam"
          /\ run.saves[1].status \in {"returned", "raised"}
    /\ run.pc = "done" /\ run.statusCode = 200 =>
          \A pair \in ListedAndUsed(IamInputs[run.saves[1].input],
                                    UsageInputs[run.saves[2].input]) :
              EdgesBetween("USED_ACTION", "role", pair[1],
                           "action", pair[2]) # {}

\* C22: every upsert, usage annotation and scoring pass that obtained a
\* graph connection and is over has closed it exactly once; while it runs
\* the connection is not closed, and it is never closed twice.
C22_ConnectionReleasedOnce ==
    /\ \A w \in Workers :
          /\ call[w].status \in {"returned", "raised"} /\ call[w].conn =>
                call[w].closed = 1
          /\ call[w].status = "running" => call[w].closed = 0
    /\ run.pc \in {"list", "metrics", "score", "put"} => run.closed = 0
    /\ run.pc = "responded" /\ run.conn => run.closed = 1

\* C23: the Privilege Breadth sub-score of every role a scoring pass has
\* scored lies between 0 and 50 (held in hundredths), also when the role
\* used more actions than its policies permit.
C23_BreadthInRange ==
    run.pc = "put" =>
        /\ run.scores.pb_score >= 0
        /\ run.scores.pb_score <= 50 * 100

====
